---------------------------- MODULE Spec2Model ----------------------------
(***************************************************************************)
(* The ReAct planning loop of the Tokyo travel agent (src/Agent.py), the  *)
(* read-only data tools it dispatches to (src/DataReader.py) and the      *)
(* writer that adds records to the store (src/DataWriter.py).             *)
(*                                                                         *)
(* Text.  A Python str is a sequence of tokens.  A token is a TLA+ string  *)
(* that stands for a fixed run of characters: the literal markers          *)
(* "Action:" and "Action Input:", one space, one newline, one double       *)
(* quote, a comma, a word, or a whole JSON object.  The seven characters   *)
(* of "Action:" occur in no other token, so a search for them is a search  *)
(* for that token.  String concatenation is \o.                            *)
(*                                                                         *)
(* Money.  Costs are exact integers in units of 1e-7 yuan (a price of      *)
(* 0.0003 yuan per 1000 tokens is 3 units per token); the floating-point   *)
(* rounding of the additions is not modelled.                              *)
(***************************************************************************)
EXTENDS Integers, Sequences, FiniteSets, Bags, TLC

VARIABLES
    live,           \* the ReActAgent objects that have been constructed
    model,          \* self.model                       (Agent.py:35)
    budget_limit,   \* self.budget_limit                (Agent.py:36)
    total_cost,     \* self.total_cost                  (Agent.py:37)
    total_tokens,   \* self.total_tokens                (Agent.py:38)
    pc,             \* where each object's plan_travel stands
    query,          \* plan_travel's parameter
    history,        \* plan_travel's local list         (Agent.py:134)
    i,              \* iterations of the for loop that have completed
    result,         \* plan_travel's return value
    sent,           \* the messages= argument of the latest model call
    calls,          \* model calls issued by the current invocation
    usage_log,      \* the usage reports the object has received (a bag)
    tool_log,       \* the tool operations the current invocation has called, in order
    invocations,    \* plan_travel invocations started on the object
    llm,            \* the model-call collaborator: its script and its usage reports
    caller,         \* the caller: the queries it passes and how often it calls
    db,             \* the rows of tokyo_attractions.parquet
    config,         \* what config.json holds: the key, no key, or no file at all
    init_error,     \* the exception ReActAgent(...) raised for each object, "" for none
    writer,         \* a DataWriter a caller constructs: its api_key and what
                    \* its latest extract_structured_data call did
    returned        \* what the caller's latest direct call of a DataReader or
                    \* DataWriter method was and what it returned

vars == <<live, model, budget_limit, total_cost, total_tokens, pc, query, history,
          i, result, sent, calls, usage_log, tool_log, invocations, llm, caller, db,
          config, init_error, writer, returned>>

\* the configuration file and the objects made from it
env == <<config, init_error, writer, returned>>

-----------------------------------------------------------------------------
(* Bounds of the model *)

\* plan_travel invocations per agent object
MaxInvocations == 2

\* length of the collaborator's script of responses
MaxScriptLen == 1

\* tokens of a generated response text or argument text
MaxTextLen == 3

-----------------------------------------------------------------------------
(* Tokens *)

ACTION_MARKER == "Action:"

INPUT_MARKER == "Action Input:"

SP == " "

NL == "\n"

QUOTE == "\""

COMMA == ","

\* str.isspace for the tokens of the model
IsSpace(tok) == tok \in {SP, NL}

\* the characters '.' of a regular expression matches: all but the newline
IsDot(tok) == tok # NL

\* s[a..b] (1-based, inclusive), the empty text when b < a
Slice(s, a, b) == IF b < a THEN <<>> ELSE SubSeq(s, a, b)

SetMin(S) == CHOOSE x \in S : \A y \in S : x <= y

SetMax(S) == CHOOSE x \in S : \A y \in S : x >= y

\* the first position >= k of s whose token fails P, Len(s)+1 when there is none
SkipWhile(P(_), s, k) ==
    IF k > Len(s) THEN k
    ELSE SetMin({j \in k..(Len(s) + 1) : j = Len(s) + 1 \/ ~P(s[j])})

\* the last position <= k of s whose token fails P, 0 when there is none
SkipBack(P(_), s, k) ==
    IF k < 1 THEN k
    ELSE SetMax({j \in 0..k : j = 0 \/ ~P(s[j])})

\* str.strip(): whitespace removed from both ends
Strip(s) ==
    LET a == SkipWhile(IsSpace, s, 1)
        b == SkipBack(IsSpace, s, Len(s))
    IN  Slice(s, a, b)

IsQuote(tok) == tok = QUOTE

\* str.strip('"'): every leading and every trailing double quote removed
StripQuotes(s) ==
    LET a == SkipWhile(IsQuote, s, 1)
        b == SkipBack(IsQuote, s, Len(s))
    IN  Slice(s, a, b)

\* the positions of s that hold the token tok
Positions(s, tok) == {k \in 1..Len(s) : s[k] = tok}

\* re.search(marker + r"\s*(.*)", s): the first occurrence of the marker, then as
\* much whitespace as there is (newlines included), then group 1, which runs to
\* the next newline or to the end of the text
SearchMarker(marker, s) ==
    IF Positions(s, marker) = {}
    THEN [found |-> FALSE, group1 |-> <<>>]
    ELSE LET m == SetMin(Positions(s, marker))
             a == SkipWhile(IsSpace, s, m + 1)
             b == SkipWhile(IsDot, s, a)
         IN  [found |-> TRUE, group1 |-> Slice(s, a, b - 1)]

-----------------------------------------------------------------------------
(* Cost Accountant *)

\* MODEL_PRICING, in units of 1e-4 yuan per 1000 tokens
MODEL_PRICING ==
    ( "qwen-flash" :> [input |-> 3,   output |-> 6] ) @@
    ( "qwen-plus"  :> [input |-> 80,  output |-> 80] ) @@
    ( "qwen-max"   :> [input |-> 400, output |-> 1200] )

\* calculate_cost with the fallback of line 63 left out: a model that is not
\* in the table costs nothing
CostFor_nofallback(m, prompt_tokens, completion_tokens) ==
    IF m \notin DOMAIN MODEL_PRICING
    THEN 0
    ELSE prompt_tokens * MODEL_PRICING[m].input
         + completion_tokens * MODEL_PRICING[m].output

\* calculate_cost of an agent whose self.model is m, in units of 1e-7 yuan
CostFor(m, prompt_tokens, completion_tokens) ==
    LET pricing == IF m \notin DOMAIN MODEL_PRICING
                   THEN MODEL_PRICING["qwen-flash"]
                   ELSE MODEL_PRICING[m]
        input_cost == prompt_tokens * pricing.input
        output_cost == completion_tokens * pricing.output
    IN  input_cost + output_cost

\* self.calculate_cost(prompt_tokens, completion_tokens)
calculate_cost(self, prompt_tokens, completion_tokens) ==
    CostFor(model[self], prompt_tokens, completion_tokens)

\* f"{x:.4f}": x rounded to a multiple of 1e-4 yuan (1000 units), written as the
\* number of such multiples (a tie, which a binary float hardly ever holds
\* exactly, goes to the even neighbour)
Fmt4(x) ==
    LET q == x \div 1000
        r == x % 1000
        n == IF r > 500 \/ (r = 500 /\ q % 2 = 1) THEN q + 1 ELSE q
    IN  <<ToString(n)>>

\* f"{x}" of a float: its shortest exact representation
Str(x) == <<ToString(x)>>

-----------------------------------------------------------------------------
(* Action Parser *)

\* extract_action with the first pattern written r"Action.*:\s*(.*)", which the
\* "Action Input:" marker matches too
extract_action_loose(response) ==
    LET action_match ==
            IF Positions(response, ACTION_MARKER) \cup Positions(response, INPUT_MARKER) = {}
            THEN [found |-> FALSE, group1 |-> <<>>]
            ELSE LET m == SetMin(Positions(response, ACTION_MARKER)
                                 \cup Positions(response, INPUT_MARKER))
                 IN  SearchMarker(response[m], response)
        action == IF action_match.found THEN Strip(action_match.group1) ELSE <<>>
        action_input_match == SearchMarker(INPUT_MARKER, response)
        action_input == IF action_input_match.found
                        THEN Strip(action_input_match.group1) ELSE <<>>
    IN  <<action, action_input>>

\* extract_action(response): <<action, action_input>>
extract_action(response) ==
    LET action_match == SearchMarker(ACTION_MARKER, response)
        action == IF action_match.found THEN Strip(action_match.group1) ELSE <<>>
        action_input_match == SearchMarker(INPUT_MARKER, response)
        action_input == IF action_input_match.found
                        THEN Strip(action_input_match.group1) ELSE <<>>
    IN  <<action, action_input>>

-----------------------------------------------------------------------------
(* JSON *)

\* The JSON object tokens of the model and the mapping each one denotes, as a
\* sequence of <<key, value>> pairs
JsonObjects ==
    ( "{\"subway\": \"Ginza line\"}" :> << <<"subway", <<"Ginza", SP, "line">> >> >> ) @@
    ( "{\"JR\": \"Maihama\"}"        :> << <<"JR", <<"Maihama">> >> >> ) @@
    ( "{\"keyword\": \"temple\"}"    :> << <<"keyword", <<"temple">> >> >> ) @@
    ( "{\"category\": \"park\", \"ward\": \"Urayasu\"}"
                                     :> << <<"category", <<"park">> >>,
                                           <<"ward", <<"Urayasu">> >> >> ) @@
    ( "{\"city\": \"Tokyo\"}"        :> << <<"city", <<"Tokyo">> >> >> )

\* The tokens that are JSON numbers
JsonNumbers == {"7"}

\* A Python value that json.loads can produce: a dict, a str or a number
PyDict(pairs) == [kind |-> "dict", str |-> <<>>, dict |-> pairs]

PyStr(s) == [kind |-> "str", str |-> s, dict |-> <<>>]

PyNum(tok) == [kind |-> "num", str |-> <<tok>>, dict |-> <<>>]

\* json.loads(s) of a str s: ok is FALSE where it raises json.JSONDecodeError
json_loads(s) ==
    LET t == Strip(s)
        n == Len(t)
    IN  IF n = 1 /\ t[1] \in DOMAIN JsonObjects
        THEN [ok |-> TRUE, value |-> PyDict(JsonObjects[t[1]])]
        ELSE IF n = 1 /\ t[1] \in JsonNumbers
        THEN [ok |-> TRUE, value |-> PyNum(t[1])]
        ELSE IF n >= 2 /\ t[1] = QUOTE /\ t[n] = QUOTE
                /\ \A k \in 2..(n - 1) : t[k] \notin {QUOTE, NL}
        THEN [ok |-> TRUE, value |-> PyStr(Slice(t, 2, n - 1))]
        ELSE [ok |-> FALSE, value |-> PyStr(<<>>)]

\* the escapes json.dumps writes inside a string
EscapeTok(tok) == IF tok = QUOTE THEN "\\\"" ELSE IF tok = NL THEN "\\n" ELSE tok

\* json.dumps of a str
DumpsStr(s) == <<QUOTE>> \o [k \in 1..Len(s) |-> EscapeTok(s[k])] \o <<QUOTE>>

\* the texts of seq, each after the first preceded by sep
RECURSIVE JoinWith(_, _)
JoinWith(seq, sep) ==
    IF seq = <<>> THEN <<>>
    ELSE IF Len(seq) = 1 THEN seq[1]
    ELSE seq[1] \o sep \o JoinWith(Tail(seq), sep)

\* json.dumps of a list of str
DumpsStrList(l) ==
    <<"[">> \o JoinWith([k \in 1..Len(l) |-> DumpsStr(l[k])], <<COMMA>>) \o <<"]">>

\* json.dumps of a dict of str to str, given as <<key, value>> pairs
DumpsDict(pairs) ==
    <<"{">>
    \o JoinWith([k \in 1..Len(pairs) |->
                    DumpsStr(<<pairs[k][1]>>) \o <<":">> \o DumpsStr(pairs[k][2])],
                <<COMMA>>)
    \o <<"}">>

\* json.dumps of a value json.loads produced
DumpsPy(v) ==
    IF v.kind = "dict" THEN DumpsDict(v.dict)
    ELSE IF v.kind = "str" THEN DumpsStr(v.str)
    ELSE v.str

-----------------------------------------------------------------------------
(* DataReader.  A stored row keeps the columns the queries read: name, ward, *)
(* description, address, categories (comma-separated) and transportation   *)
(* (a JSON text); the other ten columns are carried along untouched.       *)

\* the rows load_initial_data stores (two of them, shortened)
InitialData ==
    << [ name |-> <<"Sensoji">>, ward |-> <<"Taito">>,
         description |-> <<"old", SP, "temple">>, address |-> <<"Asakusa">>,
         categories |-> <<"temple", COMMA, "culture">>,
         transportation |-> <<"{\"subway\": \"Ginza line\"}">> ],
       [ name |-> <<"Disneyland">>, ward |-> <<"Urayasu">>,
         description |-> <<"theme", SP, "park">>, address |-> <<"Maihama">>,
         categories |-> <<"theme", SP, "park", COMMA, "family">>,
         transportation |-> <<"{\"JR\": \"Maihama\"}">> ] >>

\* DataReader._load_data(): the rows of the file
reader_load_data(file) == file

\* str.split(","), of a text that is not empty
RECURSIVE SplitComma(_)
SplitComma(s) ==
    IF Positions(s, COMMA) = {} THEN <<s>>
    ELSE LET c == SetMin(Positions(s, COMMA))
         IN  <<Slice(s, 1, c - 1)>> \o SplitComma(Slice(s, c + 1, Len(s)))

\* lines 79-85 of _df_to_dict_list: loaded is what json.loads gave for the
\* transportation text (not ok: it raised JSONDecodeError)
LoadedOrEmpty(loaded) == IF loaded.ok THEN loaded.value ELSE PyDict(<<>>)

\* one row of _df_to_dict_list: categories becomes a list, transportation
\* the value json.loads gives, or the empty dict
processed_row(row) ==
    [ name |-> row.name, ward |-> row.ward,
      description |-> row.description, address |-> row.address,
      categories |-> IF row.categories # <<>> THEN SplitComma(row.categories) ELSE <<>>,
      transportation |->
          IF row.transportation # <<>>
          THEN LoadedOrEmpty(json_loads(row.transportation))
          ELSE PyDict(<<>>) ]

\* DataReader._df_to_dict_list(df)
df_to_dict_list(df) == [k \in 1..Len(df) |-> processed_row(df[k])]

\* df.filter(P): the rows that satisfy P, in their order
Filter(P(_), df) == SelectSeq(df, P)

\* str.contains(needle, literal=True): needle occurs in hay as a run of
\* consecutive characters
Contains(hay, needle) ==
    \E a \in 1..(Len(hay) + 1) :
        /\ a + Len(needle) - 1 <= Len(hay)
        /\ Slice(hay, a, a + Len(needle) - 1) = needle

\* DataReader.get_all_attractions()
get_all_attractions(file) == df_to_dict_list(reader_load_data(file))

\* the row field of a result that is None
NoRow ==
    [ name |-> <<>>, ward |-> <<>>, description |-> <<>>, address |-> <<>>,
      categories |-> <<>>, transportation |-> PyDict(<<>>) ]

\* lines 112-116: the first of the filtered rows, None when there is none
FirstOrNone(filtered_df) ==
    IF Len(filtered_df) = 0
    THEN [found |-> FALSE, row |-> NoRow]
    ELSE [found |-> TRUE, row |-> processed_row(filtered_df[1])]

\* DataReader.get_attraction_by_name(name): found is FALSE where it returns None
get_attraction_by_name(file, name) ==
    LET NameIs(row) == row.name = name
    IN  FirstOrNone(Filter(NameIs, reader_load_data(file)))

\* DataReader.search_attractions(keyword, category, ward)
search_attractions(file, keyword, category, ward) ==
    LET df0 == reader_load_data(file)
        HasKeyword(row) == \/ Contains(row.name, keyword)
                           \/ Contains(row.description, keyword)
                           \/ Contains(row.address, keyword)
        HasCategory(row) == Contains(row.categories, category)
        InWard(row) == row.ward = ward
        df1 == IF keyword # <<>> THEN Filter(HasKeyword, df0) ELSE df0
        df2 == IF category # <<>> THEN Filter(HasCategory, df1) ELSE df1
        df3 == IF ward # <<>> THEN Filter(InWard, df2) ELSE df2
    IN  df_to_dict_list(df3)

\* DataReader.get_attractions_by_category(category)
get_attractions_by_category(file, category) ==
    search_attractions(file, <<>>, category, <<>>)

\* DataReader.get_attractions_by_ward(ward)
get_attractions_by_ward(file, ward) ==
    search_attractions(file, <<>>, <<>>, ward)

\* what a tool operation did: raised is TRUE where it raised, detail is str(e)
Returned(v) == [raised |-> FALSE, detail |-> <<>>, value |-> v]

Raised(detail) == [raised |-> TRUE, detail |-> detail, value |-> PyDict(<<>>)]

\* lines 171-176, for the attraction line 170 fetched.  json.loads of a value
\* that is not a str raises TypeError, which the method does not catch.
TransportationOf(attraction) ==
    IF attraction.found
    THEN IF attraction.row.transportation.kind # "str"
         THEN Raised(<<"the JSON object must be str, bytes or bytearray, not ",
                       IF attraction.row.transportation.kind = "dict"
                       THEN "dict" ELSE "int">>)
         ELSE Returned(LoadedOrEmpty(json_loads(attraction.row.transportation.str)))
    ELSE Returned(PyDict(<<>>))

\* DataReader.get_transportation_info(name)
get_transportation_info(file, name) ==
    TransportationOf(get_attraction_by_name(file, name))

\* lines 185-194, for the attraction line 184 fetched
BasicInfoOf(attraction) ==
    IF attraction.found
    THEN << <<"name", attraction.row.name>>,
            <<"description", attraction.row.description>>,
            <<"address", attraction.row.address>> >>
    ELSE <<>>

\* DataReader.get_basic_info(name), as <<key, value>> pairs
get_basic_info(file, name) == BasicInfoOf(get_attraction_by_name(file, name))

\* json.dumps of one dict that _df_to_dict_list made
DumpsRow(r) ==
    <<"{">>
    \o DumpsStr(<<"name">>) \o <<":">> \o DumpsStr(r.name) \o <<COMMA>>
    \o DumpsStr(<<"ward">>) \o <<":">> \o DumpsStr(r.ward) \o <<COMMA>>
    \o DumpsStr(<<"description">>) \o <<":">> \o DumpsStr(r.description) \o <<COMMA>>
    \o DumpsStr(<<"address">>) \o <<":">> \o DumpsStr(r.address) \o <<COMMA>>
    \o DumpsStr(<<"categories">>) \o <<":">> \o DumpsStrList(r.categories) \o <<COMMA>>
    \o DumpsStr(<<"transportation">>) \o <<":">> \o DumpsPy(r.transportation)
    \o <<"}">>

\* json.dumps of a list of such dicts
DumpsRows(rows) ==
    <<"[">> \o JoinWith([k \in 1..Len(rows) |-> DumpsRow(rows[k])], <<COMMA>>) \o <<"]">>

-----------------------------------------------------------------------------
(* Tool Registry and Dispatch *)

\* the keys of self.tools
ToolNames ==
    { "get_all_attractions", "get_attraction_by_name", "search_attractions",
      "get_attractions_by_category", "get_attractions_by_ward",
      "get_transportation_info", "get_basic_info" }

\* action in self.tools
InTools(action) == Len(action) = 1 /\ action[1] \in ToolNames

\* the actions dispatched with one string argument (Agent.py:99-101)
SingleArgActions ==
    { "get_attraction_by_name", "get_attractions_by_category",
      "get_attractions_by_ward", "get_transportation_info", "get_basic_info" }

\* the parameter names of search_attractions
SearchParams == {"keyword", "category", "ward"}

\* the literal of Agent.py:119 and the literal of Agent.py:121
EXEC_ERROR == "error while executing the action: "

UNKNOWN_ACTION == "unknown action: "

\* what the try block of execute_action computes: raised is TRUE where an
\* Exception reaches the except clause of line 118, with str(e) in detail;
\* otherwise text is the json.dumps of the tool's result
Ok(text) == [raised |-> FALSE, detail |-> <<>>, text |-> text]

Raise(detail) == [raised |-> TRUE, detail |-> detail, text |-> <<>>]

\* params[key] of a dict given as pairs, the default "" when key is absent
Lookup(pairs, key) ==
    IF \E k \in 1..Len(pairs) : pairs[k][1] = key
    THEN pairs[CHOOSE k \in 1..Len(pairs) : pairs[k][1] = key][2]
    ELSE <<>>

\* self.tools["search_attractions"](**params)
SearchWithParams(file, params) ==
    IF params.kind # "dict"
    THEN Raise(<<"argument after ** must be a mapping, not ",
                 IF params.kind = "str" THEN "str" ELSE "int">>)
    ELSE IF \E k \in 1..Len(params.dict) : params.dict[k][1] \notin SearchParams
    THEN Raise(<<"got an unexpected keyword argument ",
                 params.dict[CHOOSE k \in 1..Len(params.dict) :
                                 params.dict[k][1] \notin SearchParams][1]>>)
    ELSE Ok(DumpsRows(search_attractions(file, Lookup(params.dict, "keyword"),
                                         Lookup(params.dict, "category"),
                                         Lookup(params.dict, "ward"))))

\* json.dumps of what get_attraction_by_name returned
DumpsOptionalRow(attraction) ==
    IF attraction.found THEN DumpsRow(attraction.row) ELSE <<"null">>

\* line 117 for what get_transportation_info did
DumpsOutcome(outcome) ==
    IF outcome.raised THEN Raise(outcome.detail) ELSE Ok(DumpsPy(outcome.value))

\* the branch of a single-argument action, called with arg
SingleArg(file, name, arg) ==
    IF name = "get_attraction_by_name"
    THEN Ok(DumpsOptionalRow(get_attraction_by_name(file, arg)))
    ELSE IF name = "get_attractions_by_category"
    THEN Ok(DumpsRows(get_attractions_by_category(file, arg)))
    ELSE IF name = "get_attractions_by_ward"
    THEN Ok(DumpsRows(get_attractions_by_ward(file, arg)))
    ELSE IF name = "get_transportation_info"
    THEN DumpsOutcome(get_transportation_info(file, arg))
    ELSE Ok(DumpsDict(get_basic_info(file, arg)))

\* lines 106-112, for what json.loads(action_input) gave
SearchBranch(file, loaded, action_input) ==
    IF loaded.ok
    THEN SearchWithParams(file, loaded.value)
    ELSE Ok(DumpsRows(search_attractions(file, StripQuotes(action_input), <<>>, <<>>)))

\* lines 98-117 of execute_action, for an action that is in self.tools
TryAction(file, action, action_input) ==
    IF action[1] \in SingleArgActions
    THEN SingleArg(file, action[1], StripQuotes(action_input))
    ELSE IF action[1] = "search_attractions"
    THEN SearchBranch(file, json_loads(action_input), action_input)
    ELSE Ok(DumpsRows(get_all_attractions(file)))

\* the tried statements with the except clause of line 118 left out
Uncaught(name, tried) == [escaped |-> tried.raised, tool |-> name, text |-> tried.text]

\* lines 117-119, for what the tried statements did
Caught(name, tried) ==
    IF tried.raised
    THEN [escaped |-> FALSE, tool |-> name, text |-> <<EXEC_ERROR>> \o tried.detail]
    ELSE [escaped |-> FALSE, tool |-> name, text |-> tried.text]

\* line 121
Unknown(action) == [escaped |-> FALSE, tool |-> "", text |-> <<UNKNOWN_ACTION>> \o action]

\* execute_action without the except clause of line 118
execute_action_nocatch(file, action, action_input) ==
    IF InTools(action)
    THEN Uncaught(action[1], TryAction(file, action, action_input))
    ELSE Unknown(action)

\* execute_action with the registry test of line 96 left out: a name that is
\* no key raises KeyError inside the try
execute_action_nolookup(file, action, action_input) ==
    IF InTools(action)
    THEN Caught(action[1], TryAction(file, action, action_input))
    ELSE [escaped |-> FALSE, tool |-> "", text |-> <<EXEC_ERROR>> \o action]

\* execute_action(action, action_input).  escaped is TRUE where an exception
\* leaves the method; otherwise text is the string it returns.  tool is the
\* key of self.tools whose operation was called, "" when none was.
execute_action(file, action, action_input) ==
    IF InTools(action)
    THEN Caught(action[1], TryAction(file, action, action_input))
    ELSE Unknown(action)

-----------------------------------------------------------------------------
(* Planning Loop *)

\* self.max_iterations
max_iterations == 10

\* the content of the system message (Agent.py:137-157)
SYSTEM_PROMPT == <<"You are a Tokyo travel planning assistant. Use the ReAct pattern.">>

Message(role, content) == [role |-> role, content |-> content]

\* the history plan_travel starts from (Agent.py:134-163)
SeedHistory(q) == <<Message("system", SYSTEM_PROMPT), Message("user", q)>>

\* the budget test with > written for >=
BudgetReached_strict(self) == total_cost[self] > budget_limit[self]

\* the test of lines 130 and 168
BudgetReached(self) == total_cost[self] >= budget_limit[self]

\* the loop bound off by one: range(self.max_iterations + 1)
LoopExhausted_plus1(self) == i[self] >= max_iterations + 1

\* range(self.max_iterations) is exhausted
LoopExhausted(self) == i[self] >= max_iterations

\* the message of lines 131 and 169
BudgetMessage(limit, cost) ==
    <<"budget limit reached (">> \o Str(limit)
    \o <<" yuan), cannot continue. Current cost: ">> \o Fmt4(cost) \o <<" yuan">>

\* the message of line 209
IterationMessage(cost) ==
    <<"sorry, I cannot complete your request within the step limit. Current cost: ">>
    \o Fmt4(cost) \o <<" yuan">>

\* cost_info of line 199
CostInfo(prompt_tokens, completion_tokens, cost, tokens, total) ==
    <<"\n\ncost: this call used ", ToString(prompt_tokens + completion_tokens),
      " tokens, about ">> \o Fmt4(cost)
    \o <<" yuan. In total ", ToString(tokens.prompt_tokens + tokens.completion_tokens),
         " tokens, total cost ">> \o Fmt4(total) \o <<" yuan.">>

\* line 186 with = written for +=
AddCost_assign(total, cost) == cost

\* the statement of line 186
AddCost(total, cost) == total + cost

\* line 186 with total_cost an attribute of the class, one for all objects
Charged_shared(costs, self, cost) == [a \in DOMAIN costs |-> AddCost(costs[a], cost)]

\* the costs of the objects after line 186 ran on self
Charged(costs, self, cost) == [costs EXCEPT ![self] = AddCost(@, cost)]

\* the statements of lines 187-188
AddTokens(tokens, prompt_tokens, completion_tokens) ==
    [ prompt_tokens |-> tokens.prompt_tokens + prompt_tokens,
      completion_tokens |-> tokens.completion_tokens + completion_tokens ]

\* the test of line 197
NoAction(action) == action = <<>>

\* the message of lines 206-207
ObservationMessage(observation) ==
    Message("user", <<"Observation: ">> \o observation)

\* the history after line 191
WithAnswer(h, answer) == Append(h, Message("assistant", answer))

\* line 207 written as an assignment to the last element of the list
WithObservation_replace(h, observation) ==
    [h EXCEPT ![Len(h)] = ObservationMessage(observation)]

\* the history after line 207
WithObservation(h, observation) == Append(h, ObservationMessage(observation))

\* The model-call collaborator answers from its script: the reply to a request
\* is decided by the number of assistant messages the request holds.
AssistantCount(messages) ==
    Cardinality({k \in 1..Len(messages) : messages[k].role = "assistant"})

Reply(messages) == llm.script[(AssistantCount(messages) % Len(llm.script)) + 1]

Terminal == {"Done", "BudgetExceeded", "IterationExceeded"}

\* plan_travel on an object whose account starts afresh with each call
plan_travel_resets(self, q) ==
    /\ pc[self] \in {"idle", "raised"} \cup Terminal
    /\ q \in caller.queries
    /\ invocations[self] < caller.runs
    /\ invocations' = [invocations EXCEPT ![self] = @ + 1]
    /\ query' = [query EXCEPT ![self] = q]
    /\ calls' = [calls EXCEPT ![self] = 0]
    /\ sent' = [sent EXCEPT ![self] = <<>>]
    /\ i' = [i EXCEPT ![self] = 0]
    /\ tool_log' = [tool_log EXCEPT ![self] = <<>>]
    /\ total_cost' = [total_cost EXCEPT ![self] = 0]
    /\ total_tokens' = [total_tokens EXCEPT ![self] =
                          [prompt_tokens |-> 0, completion_tokens |-> 0]]
    /\ pc' = [pc EXCEPT ![self] = "loop"]
    /\ result' = [result EXCEPT ![self] = <<>>]
    /\ history' = [history EXCEPT ![self] = SeedHistory(q)]
    /\ UNCHANGED env
    /\ UNCHANGED <<live, model, budget_limit, usage_log, llm, caller, db>>

\* plan_travel with the history kept on the object: a later invocation adds
\* its query to the messages of the earlier one
plan_travel_keeps(self, q) ==
    /\ pc[self] \in {"idle", "raised"} \cup Terminal
    /\ q \in caller.queries
    /\ invocations[self] < caller.runs
    /\ invocations' = [invocations EXCEPT ![self] = @ + 1]
    /\ query' = [query EXCEPT ![self] = q]
    /\ calls' = [calls EXCEPT ![self] = 0]
    /\ sent' = [sent EXCEPT ![self] = <<>>]
    /\ i' = [i EXCEPT ![self] = 0]
    /\ tool_log' = [tool_log EXCEPT ![self] = <<>>]
    /\ IF BudgetReached(self)
       THEN /\ pc' = [pc EXCEPT ![self] = "BudgetExceeded"]
            /\ result' = [result EXCEPT ![self] =
                            BudgetMessage(budget_limit[self], total_cost[self])]
            /\ history' = [history EXCEPT ![self] = <<>>]
       ELSE /\ pc' = [pc EXCEPT ![self] = "loop"]
            /\ result' = [result EXCEPT ![self] = <<>>]
            /\ history' = [history EXCEPT ![self] =
                            IF @ = <<>> THEN SeedHistory(q)
                            ELSE Append(@, Message("user", q))]
    /\ UNCHANGED env
    /\ UNCHANGED <<live, model, budget_limit, total_cost, total_tokens, usage_log,
                   llm, caller, db>>

\* plan_travel(query) is called on an object that is not running it
\* (lines 123-163)
plan_travel(self, q) ==
    /\ pc[self] \in {"idle", "raised"} \cup Terminal
    /\ q \in caller.queries
    /\ invocations[self] < caller.runs
    /\ invocations' = [invocations EXCEPT ![self] = @ + 1]
    /\ query' = [query EXCEPT ![self] = q]
    /\ calls' = [calls EXCEPT ![self] = 0]
    /\ sent' = [sent EXCEPT ![self] = <<>>]
    /\ i' = [i EXCEPT ![self] = 0]
    /\ tool_log' = [tool_log EXCEPT ![self] = <<>>]
    /\ IF BudgetReached(self)
       THEN /\ pc' = [pc EXCEPT ![self] = "BudgetExceeded"]
            /\ result' = [result EXCEPT ![self] =
                            BudgetMessage(budget_limit[self], total_cost[self])]
            /\ history' = [history EXCEPT ![self] = <<>>]
       ELSE /\ pc' = [pc EXCEPT ![self] = "loop"]
            /\ result' = [result EXCEPT ![self] = <<>>]
            /\ history' = [history EXCEPT ![self] = SeedHistory(q)]
    /\ UNCHANGED env
    /\ UNCHANGED <<live, model, budget_limit, total_cost, total_tokens, usage_log,
                   llm, caller, db>>

\* the loop head with the budget test made before the test for the end of
\* the range
LoopHead_budgetfirst(self) ==
    /\ pc[self] = "loop"
    /\ IF BudgetReached(self)
       THEN /\ pc' = [pc EXCEPT ![self] = "BudgetExceeded"]
            /\ result' = [result EXCEPT ![self] =
                            BudgetMessage(budget_limit[self], total_cost[self])]
            /\ UNCHANGED <<sent, calls>>
       ELSE IF LoopExhausted(self)
       THEN /\ pc' = [pc EXCEPT ![self] = "IterationExceeded"]
            /\ result' = [result EXCEPT ![self] = IterationMessage(total_cost[self])]
            /\ UNCHANGED <<sent, calls>>
       ELSE /\ pc' = [pc EXCEPT ![self] = "await"]
            /\ sent' = [sent EXCEPT ![self] = history[self]]
            /\ calls' = [calls EXCEPT ![self] = @ + 1]
            /\ UNCHANGED result
    /\ UNCHANGED env
    /\ UNCHANGED <<live, model, budget_limit, total_cost, total_tokens, query, history,
                   i, usage_log, tool_log, invocations, llm, caller, db>>

\* the loop head without the budget test of lines 168-169
LoopHead_nocheck(self) ==
    /\ pc[self] = "loop"
    /\ IF LoopExhausted(self)
       THEN /\ pc' = [pc EXCEPT ![self] = "IterationExceeded"]
            /\ result' = [result EXCEPT ![self] = IterationMessage(total_cost[self])]
            /\ UNCHANGED <<sent, calls>>
       ELSE /\ pc' = [pc EXCEPT ![self] = "await"]
            /\ sent' = [sent EXCEPT ![self] = history[self]]
            /\ calls' = [calls EXCEPT ![self] = @ + 1]
            /\ UNCHANGED result
    /\ UNCHANGED env
    /\ UNCHANGED <<live, model, budget_limit, total_cost, total_tokens, query, history,
                   i, usage_log, tool_log, invocations, llm, caller, db>>

\* the head of the for loop up to the model call (lines 166-176, and 209)
LoopHead(self) ==
    /\ pc[self] = "loop"
    /\ IF LoopExhausted(self)
       THEN /\ pc' = [pc EXCEPT ![self] = "IterationExceeded"]
            /\ result' = [result EXCEPT ![self] = IterationMessage(total_cost[self])]
            /\ UNCHANGED <<sent, calls>>
       ELSE IF BudgetReached(self)
       THEN /\ pc' = [pc EXCEPT ![self] = "BudgetExceeded"]
            /\ result' = [result EXCEPT ![self] =
                            BudgetMessage(budget_limit[self], total_cost[self])]
            /\ UNCHANGED <<sent, calls>>
       ELSE /\ pc' = [pc EXCEPT ![self] = "await"]
            /\ sent' = [sent EXCEPT ![self] = history[self]]
            /\ calls' = [calls EXCEPT ![self] = @ + 1]
            /\ UNCHANGED result
    /\ UNCHANGED env
    /\ UNCHANGED <<live, model, budget_limit, total_cost, total_tokens, query, history,
                   i, usage_log, tool_log, invocations, llm, caller, db>>

\* a reader that writes the frame it kept back to the file
StoreAfter_writes(file, tool) ==
    IF tool = "search_attractions" THEN SubSeq(file, 1, 1) ELSE file

\* the rows of the file after the operation registered as tool has run ("" is
\* no operation): the DataReader methods read the file with pl.read_parquet
\* and write nothing (DataReader.py:21-194)
StoreAfter(file, tool) == file

\* lines 202-207: the observation is appended and the loop goes on.  An
\* exception that leaves execute_action at line 203 leaves plan_travel too.
Observe(self, h1, observation) ==
    /\ db' = StoreAfter(db, observation.tool)
    /\ tool_log' = [tool_log EXCEPT ![self] =
                        IF observation.tool = "" THEN @ ELSE Append(@, observation.tool)]
    /\ IF observation.escaped
       THEN /\ history' = [history EXCEPT ![self] = h1]
            /\ pc' = [pc EXCEPT ![self] = "raised"]
            /\ UNCHANGED <<i, result>>
       ELSE /\ history' = [history EXCEPT ![self] = WithObservation(h1, observation.text)]
            /\ i' = [i EXCEPT ![self] = @ + 1]
            /\ pc' = [pc EXCEPT ![self] = "loop"]
            /\ UNCHANGED result

\* lines 196-200: the response is the final answer
Finish(self, h1, answer, cost_info) ==
    /\ result' = [result EXCEPT ![self] = answer \o cost_info]
    /\ history' = [history EXCEPT ![self] = h1]
    /\ pc' = [pc EXCEPT ![self] = "Done"]
    /\ UNCHANGED <<i, tool_log, db>>

\* the model call returns; the rest of the iteration (lines 178-207)
ModelCallReturns(self) ==
    /\ pc[self] = "await"
    /\ \E usage \in llm.usage, answer \in {Reply(sent[self])} :
        \E cost \in {calculate_cost(self, usage[1], usage[2])},
           parsed \in {extract_action(answer)} :
            /\ total_cost' = Charged(total_cost, self, cost)
            /\ total_tokens' = [total_tokens EXCEPT ![self] =
                                    AddTokens(@, usage[1], usage[2])]
            /\ usage_log' = [usage_log EXCEPT ![self] = @ (+) SetToBag({usage})]
            /\ IF NoAction(parsed[1])
               THEN Finish(self, WithAnswer(history[self], answer), answer,
                           CostInfo(usage[1], usage[2], cost,
                                    AddTokens(total_tokens[self], usage[1], usage[2]),
                                    AddCost(total_cost[self], cost)))
               ELSE Observe(self, WithAnswer(history[self], answer),
                            execute_action(db, parsed[1], parsed[2]))
    /\ UNCHANGED env
    /\ UNCHANGED <<live, model, budget_limit, query, sent, calls, invocations, llm,
                   caller>>

\* the model call wrapped in a handler that tries the iteration again
ModelCallFails_retry(self) ==
    /\ pc[self] = "await"
    /\ pc' = [pc EXCEPT ![self] = "loop"]
    /\ UNCHANGED env
    /\ UNCHANGED <<live, model, budget_limit, total_cost, total_tokens, query, history,
                   i, result, sent, calls, usage_log, tool_log, invocations, llm,
                   caller, db>>

\* the model call raises (a transport failure): the exception leaves plan_travel
ModelCallFails(self) ==
    /\ pc[self] = "await"
    /\ pc' = [pc EXCEPT ![self] = "raised"]
    /\ UNCHANGED env
    /\ UNCHANGED <<live, model, budget_limit, total_cost, total_tokens, query, history,
                   i, result, sent, calls, usage_log, tool_log, invocations, llm,
                   caller, db>>

-----------------------------------------------------------------------------
(* Inputs *)

\* the queries callers pass
Queries == { <<"plan", SP, "Tokyo">>, <<"find", SP, "temples">> }

\* the usage reports a model call may come back with: <<prompt, completion>>
UsageReports == { <<1000, 500>>, <<250, 0>> }

\* constructor arguments: a model name (qwen-turbo is not in MODEL_PRICING) and a
\* budget in units of 1e-7 yuan (1000000 is the default, 0.1 yuan)
Configs ==
    { [model |-> "qwen-flash", budget_limit |-> 1000000],
      [model |-> "qwen-max",   budget_limit |-> 1000000],
      [model |-> "qwen-turbo", budget_limit |-> 10000],
      [model |-> "qwen-plus",  budget_limit |-> 0] }

\* responses the collaborator may be scripted with
FinalText == <<"Thought:", SP, "here", SP, "is", SP, "the", SP, "plan">>

AllText == <<"Thought:", SP, "list", NL, ACTION_MARKER, SP, "get_all_attractions", NL,
             INPUT_MARKER>>

UnknownText == <<ACTION_MARKER, SP, "book_hotel", NL, INPUT_MARKER, SP, "Ginza">>

FailText == <<ACTION_MARKER, SP, "get_transportation_info", NL,
              INPUT_MARKER, SP, QUOTE, "Sensoji", QUOTE>>

NoInputText == <<ACTION_MARKER, SP, "get_all_attractions">>

InputOnlyText == <<"Thought:", SP, "hm", NL, INPUT_MARKER, SP, "Sensoji">>

LoopTexts == {FinalText, AllText, UnknownText, FailText, NoInputText, InputOnlyText}

\* the sequences over S of length 1..n
RECURSIVE SeqsUpTo(_, _)
SeqsUpTo(S, n) ==
    IF n = 0 THEN {}
    ELSE {<<x>> : x \in S}
         \cup SeqsUpTo(S, n - 1)
         \cup {Append(t, x) : t \in SeqsUpTo(S, n - 1), x \in S}

Scripts == SeqsUpTo(LoopTexts, MaxScriptLen)

\* the agent objects a caller may construct
AgentIds == {1, 2}

\* no DataWriter has been constructed
NoWriter == [pc |-> "absent", api_key |-> "", calls |-> 0, last |-> "none"]

\* the state after ReActAgent(...) has been constructed for each object of
\* agents with configuration cfg, against collaborator c, for caller who
\* (lines 35-41)
Objects(agents, cfg, c, who) ==
    /\ live = agents
    /\ model = [a \in agents |-> cfg.model]
    /\ budget_limit = [a \in agents |-> cfg.budget_limit]
    /\ total_cost = [a \in agents |-> 0]
    /\ total_tokens = [a \in agents |-> [prompt_tokens |-> 0, completion_tokens |-> 0]]
    /\ pc = [a \in agents |-> "idle"]
    /\ query = [a \in agents |-> <<>>]
    /\ history = [a \in agents |-> <<>>]
    /\ i = [a \in agents |-> 0]
    /\ result = [a \in agents |-> <<>>]
    /\ sent = [a \in agents |-> <<>>]
    /\ calls = [a \in agents |-> 0]
    /\ usage_log = [a \in agents |-> EmptyBag]
    /\ tool_log = [a \in agents |-> <<>>]
    /\ invocations = [a \in agents |-> 0]
    /\ llm = c
    /\ caller = who
    /\ db = InitialData

\* the caller has called no DataReader or DataWriter method itself
NoCall ==
    [ op |-> "none", keyword |-> <<>>, category |-> <<>>, ward |-> <<>>,
      is_structured |-> FALSE,
      input_data |-> [ kind |-> "none", keys |-> {}, name |-> <<>>, ward |-> <<>>,
                       description |-> <<"a", " ", "sight">>, address |-> <<"Tokyo">>,
                       categories |-> <<>>, transportation |-> <<>> ],
      data |-> [ kind |-> "none", keys |-> {}, name |-> <<>>, ward |-> <<>>,
                 description |-> <<"a", " ", "sight">>, address |-> <<"Tokyo">>,
                 categories |-> <<>>, transportation |-> <<>> ],
      rows |-> <<>>, flag |-> FALSE ]

\* the objects of agents constructed from a configuration file that holds
\* the key; no DataWriter yet
Constructed(agents, cfg, c, who) ==
    /\ Objects(agents, cfg, c, who)
    /\ config = "key"
    /\ init_error = [a \in AgentIds |-> ""]
    /\ writer = NoWriter
    /\ returned = NoCall

Init ==
    \E cfg \in Configs, script \in Scripts :
        Constructed({1}, cfg, [script |-> script, usage |-> UsageReports],
                    [queries |-> Queries, runs |-> MaxInvocations])

Next ==
    \/ \E self \in live, q \in Queries : plan_travel(self, q)
    \/ \E self \in live : LoopHead(self)
    \/ \E self \in live : ModelCallReturns(self)
    \/ \E self \in live : ModelCallFails(self)

Spec == Init /\ [][Next]_vars

\* the tokens response texts are generated from
ResponseAlphabet == {ACTION_MARKER, INPUT_MARKER, SP, NL, "get_all_attractions", "Sensoji"}

\* every response text of at most MaxTextLen tokens
ResponseTexts == SeqsUpTo(ResponseAlphabet, MaxTextLen)

\* one object with the default budget on the dearest model, one query, one
\* plan_travel call, against a collaborator that answers t every time
OneText(t) ==
    Constructed({1}, [model |-> "qwen-max", budget_limit |-> 1000000],
                [script |-> <<t>>, usage |-> {<<1000, 500>>}],
                [queries |-> {<<"plan", SP, "Tokyo">>}, runs |-> 1])

InitTexts == \E t \in ResponseTexts : OneText(t)

\* the planning loop over every generated response text
SpecTexts == InitTexts /\ [][Next]_vars

\* the tokens argument texts are generated from
ArgAlphabet ==
    { QUOTE, "Sensoji", "temple", "7",
      "{\"keyword\": \"temple\"}", "{\"city\": \"Tokyo\"}" }

\* every argument text of at most MaxTextLen tokens, the empty one included
ArgTexts == {<<>>} \cup SeqsUpTo(ArgAlphabet, MaxTextLen)

\* the action names declared: the registry keys and three that are no key
ActionNames ==
    {<<n>> : n \in ToolNames}
    \cup { <<"book_hotel">>, <<"Get_All_Attractions">>,
           <<"get_all_attractions", SP, "please">> }

\* the response that declares action a with argument text arg
Declares(a, arg) ==
    <<"Thought:", SP, "look", NL, ACTION_MARKER, SP>> \o a
    \o <<NL, INPUT_MARKER, SP>> \o arg

InitDispatch == \E a \in ActionNames, arg \in ArgTexts : OneText(Declares(a, arg))

\* the planning loop over every declared action and generated argument text
SpecDispatch == InitDispatch /\ [][Next]_vars

\* Next without the failing model call: every model call returns
NextReturning ==
    \/ \E self \in live, q \in Queries : plan_travel(self, q)
    \/ \E self \in live : LoopHead(self)
    \/ \E self \in live : ModelCallReturns(self)

\* One object (Init constructs object 1 alone) whose plan_travel, sequential
\* code, runs on once called, and whose model calls do not raise.  That a
\* pending model call returns is the collaborator's doing, not the code's:
\* it is a hypothesis of the property, not a fairness condition here.
SpecReturning ==
    /\ Init
    /\ [][NextReturning]_vars
    /\ WF_vars(LoopHead(1))

-----------------------------------------------------------------------------
(* Construction *)

\* extract_structured_data calls one writer may make
MaxExtracts == 2

\* what config.json may hold
ConfigFiles == {"key", "nokey", "missing"}

\* f with a, a new object, given the value v
Extend(f, a, v) == [x \in DOMAIN f \cup {a} |-> IF x = a THEN v ELSE f[x]]

\* ReActAgent(config_path, model, budget_limit) for a new object a
\* (Agent.py:20-52).  open() of line 28 raises FileNotFoundError when the file
\* is missing and config["key"] of line 32 raises KeyError when it holds no
\* key; the object then does not come to exist.
ReActAgent_init(a, cfg) ==
    /\ a \in AgentIds \ live
    /\ init_error[a] = ""
    /\ IF config = "missing"
       THEN /\ init_error' = [init_error EXCEPT ![a] = "FileNotFoundError"]
            /\ UNCHANGED <<live, model, budget_limit, total_cost, total_tokens, pc,
                           query, history, i, result, sent, calls, usage_log,
                           tool_log, invocations>>
       ELSE IF config = "nokey"
       THEN /\ init_error' = [init_error EXCEPT ![a] = "KeyError"]
            /\ UNCHANGED <<live, model, budget_limit, total_cost, total_tokens, pc,
                           query, history, i, result, sent, calls, usage_log,
                           tool_log, invocations>>
       ELSE /\ live' = live \cup {a}
            /\ model' = Extend(model, a, cfg.model)
            /\ budget_limit' = Extend(budget_limit, a, cfg.budget_limit)
            /\ total_cost' = Extend(total_cost, a, 0)
            /\ total_tokens' = Extend(total_tokens, a,
                                      [prompt_tokens |-> 0, completion_tokens |-> 0])
            /\ pc' = Extend(pc, a, "idle")
            /\ query' = Extend(query, a, <<>>)
            /\ history' = Extend(history, a, <<>>)
            /\ i' = Extend(i, a, 0)
            /\ result' = Extend(result, a, <<>>)
            /\ sent' = Extend(sent, a, <<>>)
            /\ calls' = Extend(calls, a, 0)
            /\ usage_log' = Extend(usage_log, a, EmptyBag)
            /\ tool_log' = Extend(tool_log, a, <<>>)
            /\ invocations' = Extend(invocations, a, 0)
            /\ UNCHANGED init_error
    /\ UNCHANGED <<llm, caller, db, config, writer, returned>>

\* DataWriter(db_path, config_path) (DataWriter.py:12-35): _load_config takes
\* the key with config.get("key", "") and catches FileNotFoundError, so the
\* constructor returns whatever the file holds
DataWriter_init ==
    /\ writer.pc = "absent"
    /\ writer' = [writer EXCEPT !.pc = "ready",
                                !.api_key = IF config = "key" THEN "k" ELSE ""]
    /\ UNCHANGED <<live, model, budget_limit, total_cost, total_tokens, pc, query,
                   history, i, result, sent, calls, usage_log, tool_log, invocations,
                   llm, caller, db, config, init_error, returned>>

\* DataWriter.extract_structured_data(text) (DataWriter.py:88-158): without a
\* key it raises ValueError before any model call; with one it calls the model
\* and returns the data, or raises ValueError when the call or the parsing of
\* the answer fails
extract_structured_data ==
    /\ writer.pc = "ready"
    /\ writer.calls < MaxExtracts
    /\ IF writer.api_key = ""
       THEN writer' = [writer EXCEPT !.last = "ValueError: no key"]
       ELSE \E outcome \in {"returned", "ValueError: call failed"} :
                writer' = [writer EXCEPT !.calls = @ + 1, !.last = outcome]
    /\ UNCHANGED <<live, model, budget_limit, total_cost, total_tokens, pc, query,
                   history, i, result, sent, calls, usage_log, tool_log, invocations,
                   llm, caller, db, config, init_error, returned>>

\* nothing has been constructed yet; the file holds one of ConfigFiles
InitConfig ==
    /\ Objects({}, [model |-> "qwen-flash", budget_limit |-> 1000000],
               [script |-> <<AllText>>, usage |-> {<<1000, 500>>}],
               [queries |-> {<<"plan", SP, "Tokyo">>}, runs |-> 1])
    /\ config \in ConfigFiles
    /\ init_error = [a \in AgentIds |-> ""]
    /\ writer = NoWriter
    /\ returned = NoCall

NextConfig ==
    \/ \E a \in AgentIds, cfg \in Configs : ReActAgent_init(a, cfg)
    \/ DataWriter_init
    \/ extract_structured_data
    \/ Next

\* callers construct agents and a writer from the configuration file and
\* use them
SpecConfig == InitConfig /\ [][NextConfig]_vars

-----------------------------------------------------------------------------
(* Direct use of the store.  A caller constructs a DataReader and a         *)
(* DataWriter itself and calls their methods (example.py:12-105).  An      *)
(* attraction dict passed to the writer carries the sixteen columns in the *)
(* stored order, or lacks a required field; of its columns the model keeps *)
(* the six a stored row keeps.                                              *)

\* rows the store may come to hold
MaxRows == 3

\* the call a caller made and what came back: rows for a DataReader query,
\* flag for the bool of add_attraction_data; data is what the add passed on
\* to _add_structured_attraction
Call(op, keyword, category, ward, is_structured, input_data, data, rows, flag) ==
    [ op |-> op, keyword |-> keyword, category |-> category, ward |-> ward,
      is_structured |-> is_structured, input_data |-> input_data, data |-> data,
      rows |-> rows, flag |-> flag ]

\* the keys a dict must hold (DataWriter.py:196)
required_fields == {"name", "city", "ward", "description"}

\* a value passed as input_data or returned by extract_structured_data: a
\* dict (keys are the required fields it holds), a str, or a number
Data(kind, keys, name, ward, categories, transportation) ==
    [ kind |-> kind, keys |-> keys, name |-> name, ward |-> ward,
      description |-> <<"a", SP, "sight">>, address |-> <<"Tokyo">>,
      categories |-> categories, transportation |-> transportation ]

\* no value
NoData == Data("none", {}, <<>>, <<>>, <<>>, <<>>)

\* an unstructured text
SomeText == Data("str", {}, <<>>, <<>>, <<>>, <<>>)

\* a number where a dict was expected
SomeNumber == Data("num", {}, <<>>, <<>>, <<>>, <<>>)

\* the dicts callers and the extraction come up with: two new attractions,
\* one whose name is stored already, one without its ward
AttractionDicts ==
    { Data("dict", required_fields, <<"Skytree">>, <<"Sumida">>,
           << <<"tower">>, <<"view">> >>, << <<"subway", <<"Ginza", SP, "line">> >> >>),
      Data("dict", required_fields, <<"Ueno", SP, "Park">>, <<"Taito">>,
           << <<"park">> >>, << <<"JR", <<"Maihama">> >> >>),
      Data("dict", required_fields, <<"Sensoji">>, <<"Taito">>,
           << <<"temple">> >>, << <<"subway", <<"Ginza", SP, "line">> >> >>),
      Data("dict", required_fields \ {"ward"}, <<"Skytree">>, <<>>,
           << <<"tower">> >>, << <<"JR", <<"Maihama">> >> >>) }

\* what callers pass as input_data
AddInputs == AttractionDicts \cup {SomeText, SomeNumber}

\* what extract_structured_data does inside an add: it raises ValueError or
\* returns what json.loads made of the model's answer
ExtractOutcomes == AttractionDicts \cup {SomeNumber, NoData}

\* the filter values callers query with
Keywords == { <<>>, <<"temple">>, <<"Maihama">> }

Categories == { <<>>, <<"temple">>, <<"park">>, <<"family">> }

Wards == { <<>>, <<"Taito">>, <<"Urayasu">> }

\* data_reader.search_attractions(keyword, category, ward) called by the
\* caller (DataReader.py:118-142)
call_search_attractions(keyword, category, ward) ==
    /\ returned' = Call("search_attractions", keyword, category, ward, FALSE, NoData,
                        NoData, search_attractions(db, keyword, category, ward), TRUE)
    /\ UNCHANGED <<live, model, budget_limit, total_cost, total_tokens, pc, query,
                   history, i, result, sent, calls, usage_log, tool_log, invocations,
                   llm, caller, db, config, init_error, writer>>

\* data_reader.get_attractions_by_category(category) called by the caller
\* (DataReader.py:144-150)
call_get_attractions_by_category(category) ==
    /\ returned' = Call("get_attractions_by_category", <<>>, category, <<>>, FALSE,
                        NoData, NoData, get_attractions_by_category(db, category), TRUE)
    /\ UNCHANGED <<live, model, budget_limit, total_cost, total_tokens, pc, query,
                   history, i, result, sent, calls, usage_log, tool_log, invocations,
                   llm, caller, db, config, init_error, writer>>

\* data_reader.get_attractions_by_ward(ward) called by the caller
\* (DataReader.py:152-158)
call_get_attractions_by_ward(ward) ==
    /\ returned' = Call("get_attractions_by_ward", <<>>, <<>>, ward, FALSE,
                        NoData, NoData, get_attractions_by_ward(db, ward), TRUE)
    /\ UNCHANGED <<live, model, budget_limit, total_cost, total_tokens, pc, query,
                   history, i, result, sent, calls, usage_log, tool_log, invocations,
                   llm, caller, db, config, init_error, writer>>

\* json.dumps(d, ensure_ascii=False) of a dict of str to str, as one token
DumpsObject(pairs) ==
    IF \E tok \in DOMAIN JsonObjects : JsonObjects[tok] = pairs
    THEN CHOOSE tok \in DOMAIN JsonObjects : JsonObjects[tok] = pairs
    ELSE "{}"

\* the row made of attraction_data (DataWriter.py:215-233): the list of
\* categories joined with commas, the transportation dict serialized
new_record(attraction_data) ==
    [ name |-> attraction_data.name, ward |-> attraction_data.ward,
      description |-> attraction_data.description,
      address |-> attraction_data.address,
      categories |-> JoinWith(attraction_data.categories, <<COMMA>>),
      transportation |-> <<DumpsObject(attraction_data.transportation)>> ]

\* DataWriter._load_data() (lines 41-69): the rows of the file, no rows when
\* read_parquet raises
writer_load_data(file, load_ok) == IF load_ok THEN file ELSE <<>>

\* a load that never falls back to the empty frame
writer_load_data_sound(file, load_ok) == file

\* lines 228-242 for the frame df that was loaded: value is what is returned,
\* file the rows of the file afterwards.  write_parquet either replaces the
\* file or raises and leaves it.
AddToFrame(file, df, attraction_data, save_ok) ==
    IF \E k \in 1..Len(df) : df[k].name = attraction_data.name
    THEN [value |-> FALSE, file |-> file]
    ELSE IF save_ok
    THEN [value |-> TRUE,
          file |-> IF Len(df) > 0 THEN Append(df, new_record(attraction_data))
                   ELSE <<new_record(attraction_data)>>]
    ELSE [value |-> FALSE, file |-> file]

\* DataWriter._add_structured_attraction(attraction_data) (lines 188-245):
\* a value that is no dict or lacks a required field raises inside the try
\* and False is returned before the file is read
add_structured_attraction(file, attraction_data, load_ok, save_ok) ==
    IF attraction_data.kind # "dict" \/ ~(required_fields \subseteq attraction_data.keys)
    THEN [value |-> FALSE, file |-> file]
    ELSE AddToFrame(file, writer_load_data(file, load_ok), attraction_data, save_ok)

\* the end of add_attraction_data: data went to _add_structured_attraction,
\* which did added
Added(is_structured, input_data, data, added) ==
    /\ returned' = Call("add_attraction_data", <<>>, <<>>, <<>>, is_structured,
                        input_data, data, <<>>, added.value)
    /\ db' = added.file

\* add_attraction_data returns False without reaching the file
NotAdded(is_structured, input_data) ==
    /\ returned' = Call("add_attraction_data", <<>>, <<>>, <<>>, is_structured,
                        input_data, NoData, <<>>, FALSE)
    /\ UNCHANGED db

\* data_writer.add_attraction_data(is_structured, input_data) called by the
\* caller (DataWriter.py:164-186), the extraction (lines 88-158), the load and
\* the save included; load_ok and save_ok are whether read_parquet and
\* write_parquet succeed
add_attraction_data(is_structured, input_data) ==
    /\ writer.pc = "ready"
    /\ Len(db) < MaxRows
    /\ IF is_structured /\ input_data.kind = "dict"
       THEN /\ \E load_ok \in BOOLEAN, save_ok \in BOOLEAN :
                 \E added \in {add_structured_attraction(db, input_data, load_ok, save_ok)} :
                     Added(is_structured, input_data, input_data, added)
            /\ UNCHANGED writer
       ELSE IF input_data.kind # "str"
       THEN NotAdded(is_structured, input_data) /\ UNCHANGED writer
       ELSE IF writer.api_key = ""
       THEN /\ NotAdded(is_structured, input_data)
            /\ writer' = [writer EXCEPT !.last = "ValueError: no key"]
       ELSE /\ writer.calls < MaxExtracts
            /\ \E extracted \in ExtractOutcomes :
                 IF extracted.kind = "none"
                 THEN /\ NotAdded(is_structured, input_data)
                      /\ writer' = [writer EXCEPT !.calls = @ + 1,
                                                  !.last = "ValueError: call failed"]
                 ELSE /\ \E load_ok \in BOOLEAN, save_ok \in BOOLEAN :
                           \E added \in {add_structured_attraction(db, extracted,
                                                                   load_ok, save_ok)} :
                               Added(is_structured, input_data, extracted, added)
                      /\ writer' = [writer EXCEPT !.calls = @ + 1, !.last = "returned"]
    /\ UNCHANGED <<live, model, budget_limit, total_cost, total_tokens, pc, query,
                   history, i, result, sent, calls, usage_log, tool_log, invocations,
                   llm, caller, config, init_error>>

\* no object has been constructed; the file holds the rows of InitialData
\* and config.json holds a key or none
InitStore ==
    /\ Objects({}, [model |-> "qwen-flash", budget_limit |-> 1000000],
               [script |-> <<AllText>>, usage |-> {<<1000, 500>>}],
               [queries |-> {<<"plan", SP, "Tokyo">>}, runs |-> 1])
    /\ config \in {"key", "nokey"}
    /\ init_error = [a \in AgentIds |-> ""]
    /\ writer = NoWriter
    /\ returned = NoCall

NextStore ==
    \/ DataWriter_init
    \/ \E is_structured \in BOOLEAN, input_data \in AddInputs :
           add_attraction_data(is_structured, input_data)
    \/ \E keyword \in Keywords, category \in Categories, ward \in Wards :
           call_search_attractions(keyword, category, ward)
    \/ \E category \in Categories : call_get_attractions_by_category(category)
    \/ \E ward \in Wards : call_get_attractions_by_ward(ward)

\* a caller writes to the store and queries it
SpecStore == InitStore /\ [][NextStore]_vars

-----------------------------------------------------------------------------
(* Properties *)

Range(s) == {s[k] : k \in 1..Len(s)}

\* a plan_travel call on self happens in this step
Enters(self) == invocations'[self] # invocations[self]

\* self issues a model call in this step
IssuesCall(self) == calls'[self] = calls[self] + 1

\* result is the budget-exceeded message for ceiling limit and cost c
IsBudgetMessage(text, limit, c) ==
    /\ Len(text) = 5
    /\ text[1] = "budget limit reached ("
    /\ text[2] = ToString(limit)
    /\ <<text[4]>> = Fmt4(c)

\* C1: whenever the accumulated cost is at or above budget_limit at a budget
\* check (on entry to plan_travel, or at the start of a loop iteration), the
\* step issues no model call and returns the budget-exceeded message, which
\* reports the ceiling and the cost (to four decimals); and no model call is
\* issued after that return until plan_travel is called again.
C1_BudgetGate ==
    [][\A self \in live :
        /\ ( /\ total_cost[self] >= budget_limit[self]
             /\ \/ Enters(self)
                \/ pc[self] = "loop" /\ i[self] < max_iterations /\ pc'[self] # "loop" )
           => /\ pc'[self] = "BudgetExceeded"
              /\ ~IssuesCall(self)
              /\ IsBudgetMessage(result'[self], budget_limit[self], total_cost[self])
              /\ total_cost'[self] = total_cost[self]
        /\ pc[self] = "BudgetExceeded" => ~IssuesCall(self)
    ]_vars

\* C1 witness: a loop-head check stopped an invocation that had made calls
C1_Witness ==
    \E self \in live :
        /\ pc[self] = "BudgetExceeded"
        /\ calls[self] >= 1
        /\ total_cost[self] = budget_limit[self]

\* result is the step-limit message for cost c
IsIterationMessage(text, c) ==
    /\ Len(text) = 3
    /\ text[1] = "sorry, I cannot complete your request within the step limit. Current cost: "
    /\ <<text[2]>> = Fmt4(c)

\* C2: one plan_travel invocation issues at most max_iterations model calls,
\* whatever the budget; an invocation whose max_iterations calls all declared
\* an action ends with the step-limit message carrying the accumulated cost.
C2_IterationCap ==
    \A self \in live :
        /\ calls[self] <= 10
        /\ (pc[self] \in Terminal /\ i[self] = 10)
           => /\ pc[self] = "IterationExceeded"
              /\ IsIterationMessage(result[self], total_cost[self])
        /\ pc[self] = "IterationExceeded" => calls[self] = 10

\* C2 witness: the cap was reached
C2_Witness ==
    \E self \in live : pc[self] = "IterationExceeded" /\ calls[self] = 10

\* the observations of the current invocation
Observations(self) ==
    {history[self][k].content : k \in {n \in 1..Len(history[self]) :
                                          n > 2 /\ history[self][n].role = "user"}}

\* where plan_travel stands on object a, "absent" for an object never constructed
PcOf(a) == IF a \in live THEN pc[a] ELSE "absent"

\* C3: when every model call returns, every plan_travel invocation ends, in
\* one of Done, BudgetExceeded and IterationExceeded; nothing (a tool failure,
\* an unknown action, an unparsable response) takes it anywhere else.
C3_Termination ==
    /\ [](\A self \in live : pc[self] \in {"idle", "loop", "await"} \cup Terminal)
    /\ [](PcOf(1) = "await" => <>(PcOf(1) # "await"))
       => [](PcOf(1) \in {"loop", "await"} => <>(PcOf(1) \in Terminal))

\* C3 witness: an invocation that met a tool failure has ended
C3_Witness ==
    \E self \in live :
        /\ pc[self] \in Terminal
        /\ \E o \in Observations(self) : o[2] = EXEC_ERROR

\* the dearest model call the collaborator can report, for self
MaxCallCost(self) ==
    CHOOSE c \in {calculate_cost(self, u[1], u[2]) : u \in llm.usage} :
        \A u \in llm.usage : calculate_cost(self, u[1], u[2]) <= c

\* C4: a model call is issued only with the accumulated cost strictly below
\* budget_limit, so the cost never passes the ceiling by a full call's cost.
C4_BoundedOverspend ==
    [][\A self \in live :
        /\ IssuesCall(self) => total_cost[self] < budget_limit[self]
        /\ total_cost'[self] # total_cost[self]
           => /\ total_cost[self] < budget_limit[self]
              /\ total_cost'[self] - budget_limit[self]
                    < total_cost'[self] - total_cost[self]
        /\ total_cost'[self] < budget_limit[self] + MaxCallCost(self)
    ]_vars

\* C4 witness: the cost passed the ceiling, by less than the last call's cost
C4_Witness ==
    \E self \in live :
        /\ total_cost[self] > budget_limit[self]
        /\ calls[self] >= 2

\* the sum of f over the copies of a bag
RECURSIVE BagSum(_, _)
BagSum(f(_), B) ==
    IF BagToSet(B) = {} THEN 0
    ELSE LET x == CHOOSE y \in BagToSet(B) : TRUE
         IN  f(x) * CopiesIn(x, B)
             + BagSum(f, [y \in BagToSet(B) \ {x} |-> B[y]])

\* C5: total_cost is the sum of calculate_cost over the usage reports received
\* so far, the token totals are the sums of the reported counts, and no step
\* lowers or resets total_cost.
C5_RunningAccount ==
    /\ [](\A self \in live :
            LET CostOf(u) == CostFor(model[self], u[1], u[2])
                Prompt(u) == u[1]
                Completion(u) == u[2]
            IN  /\ total_cost[self] = BagSum(CostOf, usage_log[self])
                /\ total_tokens[self].prompt_tokens = BagSum(Prompt, usage_log[self])
                /\ total_tokens[self].completion_tokens
                      = BagSum(Completion, usage_log[self]))
    /\ [][\A self \in live : total_cost'[self] >= total_cost[self]]_vars

\* C5 witness: costs of two invocations have been added up
C5_Witness ==
    \E self \in live :
        /\ invocations[self] = 2
        /\ calls[self] >= 1
        /\ BagCardinality(usage_log[self]) > calls[self]
        /\ pc[self] = "loop"

\* the response to the first model call of self's current invocation
FirstResponse(self) == history[self][3].content

\* self's current invocation has received its first response
Answered(self) == Len(history[self]) >= 3

\* the cost-disclosure suffixes self can have written: one for each usage
\* report the collaborator gives, with the running totals of self
CostSuffixes(self) ==
    { CostInfo(u[1], u[2], CostFor(model[self], u[1], u[2]),
               total_tokens[self], total_cost[self]) : u \in llm.usage }

\* C6: when the response to the first model call of an invocation holds no
\* "Action:" marker, the invocation has ended there: one model call was
\* issued, the outcome is Done, no tool was called, and the result is the
\* response text followed by the cost-disclosure suffix.
C6_FinalAnswer ==
    \A self \in live :
        (Answered(self) /\ ACTION_MARKER \notin Range(FirstResponse(self)))
        => /\ pc[self] = "Done"
           /\ calls[self] = 1
           /\ Len(history[self]) = 3
           /\ tool_log[self] = <<>>
           /\ \E suffix \in CostSuffixes(self) :
                 result[self] = FirstResponse(self) \o suffix

\* C6 witness: a response with an "Action Input:" marker but no "Action:"
\* marker was taken as the final answer
C6_Witness ==
    \E self \in live :
        /\ pc[self] = "Done"
        /\ calls[self] = 1
        /\ INPUT_MARKER \in Range(FirstResponse(self))
        /\ ACTION_MARKER \notin Range(FirstResponse(self))

\* text declares a registered action and gives an "Action Input:" line
ValidPair(text) ==
    /\ InTools(extract_action(text)[1])
    /\ INPUT_MARKER \in Range(text)

\* every response of the collaborator is a valid pair
AlwaysDeclares == \A k \in 1..Len(llm.script) : ValidPair(llm.script[k])

\* C7 as stated: with a model that always returns a valid pair, an invocation
\* that issued a model call ends after exactly max_iterations model calls with
\* the step-limit message.
C7_Original ==
    AlwaysDeclares
    => \A self \in live :
          (pc[self] \in Terminal /\ calls[self] >= 1)
          => /\ pc[self] = "IterationExceeded"
             /\ calls[self] = max_iterations
             /\ IsIterationMessage(result[self], total_cost[self])

\* C7, amended: with a model that always returns a valid pair, an invocation
\* whose model calls return ends, and never as Done: it ends with the
\* step-limit message after exactly max_iterations model calls, unless the
\* accumulated cost reached budget_limit at a budget check before that, in
\* which case it ends with the budget-exceeded message after fewer calls.
C7_IterationOrBudget ==
    /\ [](AlwaysDeclares
          => \A self \in live :
                /\ pc[self] # "Done"
                /\ pc[self] = "IterationExceeded"
                   => /\ calls[self] = max_iterations
                      /\ IsIterationMessage(result[self], total_cost[self])
                /\ pc[self] = "BudgetExceeded"
                   => /\ calls[self] < max_iterations
                      /\ total_cost[self] >= budget_limit[self]
                      /\ IsBudgetMessage(result[self], budget_limit[self],
                                         total_cost[self]))
    /\ [](PcOf(1) = "await" => <>(PcOf(1) # "await"))
       => []((AlwaysDeclares /\ PcOf(1) \in {"loop", "await"})
             => <>(PcOf(1) \in {"IterationExceeded", "BudgetExceeded"}))

\* C7 witness: ten valid pairs were answered within the budget
C7_Witness ==
    /\ AlwaysDeclares
    /\ \E self \in live :
          /\ pc[self] = "IterationExceeded"
          /\ Len(tool_log[self]) = max_iterations
          /\ total_cost[self] < budget_limit[self]

\* the model call of self returns in this step
Returns(self) == usage_log'[self] # usage_log[self]

\* the history of self after a response and the observation text obs
Observed(self, obs) ==
    history[self] \o << Message("assistant", Reply(sent[self])),
                        Message("user", <<"Observation: ">> \o obs) >>

\* self goes on to the next iteration in this step
GoesOn(self) == pc'[self] = "loop" /\ i'[self] = i[self] + 1

\* C8: for every registered action and every argument text, when the tried
\* statements of execute_action (the operation, the parsing of the argument,
\* the serialization) raise, the step does not raise: the operation was called,
\* the observation appended is the execution-error string followed by the
\* error detail, and the loop goes on to the next iteration.
C8_FailureAbsorbed ==
    [][\A self \in live :
        LET parsed == extract_action(Reply(sent[self]))
        IN  ( /\ Returns(self)
              /\ InTools(parsed[1])
              /\ TryAction(db, parsed[1], parsed[2]).raised )
            => /\ GoesOn(self)
               /\ history'[self]
                    = Observed(self, <<EXEC_ERROR>>
                                     \o TryAction(db, parsed[1], parsed[2]).detail)
               /\ tool_log'[self] = Append(tool_log[self], parsed[1][1])
    ]_vars

\* the observation of the first iteration of self's current invocation
FirstObservation(self) == history[self][4].content

\* C8 witness: search_attractions failed on its argument and the loop went on
C8_Witness ==
    \E self \in live :
        /\ pc[self] = "loop"
        /\ tool_log[self] = <<"search_attractions">>
        /\ Len(history[self]) = 4
        /\ FirstObservation(self)[2] = EXEC_ERROR

\* C9: for every declared action name that is no key of self.tools, the step
\* does not raise and calls no tool operation: the observation appended is
\* the unknown-action string followed by that name, and the loop goes on.
C9_UnknownAction ==
    [][\A self \in live :
        LET parsed == extract_action(Reply(sent[self]))
        IN  ( /\ Returns(self)
              /\ parsed[1] # <<>>
              /\ ~InTools(parsed[1]) )
            => /\ GoesOn(self)
               /\ history'[self] = Observed(self, <<UNKNOWN_ACTION>> \o parsed[1])
               /\ tool_log'[self] = tool_log[self]
    ]_vars

\* C9 witness: a name that differs from a key only by trailing words was
\* answered with the unknown-action string
C9_Witness ==
    \E self \in live :
        /\ pc[self] = "loop"
        /\ tool_log[self] = <<>>
        /\ Len(history[self]) = 4
        /\ FirstObservation(self)
             = <<"Observation: ", UNKNOWN_ACTION, "get_all_attractions", SP, "please">>

\* text holds no "Action:" marker
MarkerFree(text) == ACTION_MARKER \notin Range(text)

\* nothing but blanks stands between position m of text and the end of its line
BlankToEndOfLine(text, m) ==
    \A k \in (m + 1)..Len(text) :
        text[k] # SP => \E n \in (m + 1)..k : text[n] = NL

\* text holds "Action:" markers, and none has a name after it on its line
Malformed(text) ==
    /\ ~MarkerFree(text)
    /\ \A m \in Positions(text, ACTION_MARKER) : BlankToEndOfLine(text, m)

\* C10 as stated: for a first response that is marker-free or malformed,
\* extract_action gives the empty action name and the invocation ends there
\* with the response as the final answer.
C10_Original ==
    \A self \in live :
        ( /\ Answered(self)
          /\ MarkerFree(FirstResponse(self)) \/ Malformed(FirstResponse(self)) )
        => /\ extract_action(FirstResponse(self))[1] = <<>>
           /\ pc[self] = "Done"
           /\ SubSeq(result[self], 1, Len(FirstResponse(self))) = FirstResponse(self)

\* the marker stands at the start of a line of text, and nowhere else in text
AnchoredOnce(marker, text) ==
    /\ Cardinality(Positions(text, marker)) = 1
    /\ \A m \in Positions(text, marker) : m = 1 \/ text[m - 1] = NL

\* the whitespace-stripped content between the marker and the end of its line
RestOfLine(marker, text) ==
    LET m == SetMin(Positions(text, marker))
    IN  Strip(Slice(text, m + 1, SkipWhile(IsDot, text, m + 1) - 1))

\* C11 as stated: for a first response whose "Action:" marker (or "Action
\* Input:" marker) stands once, at the start of a line, the field extract_action
\* returns is the stripped content between that marker and the end of the same
\* line, empty when nothing follows on that line; and a response whose action
\* line is empty is the final answer.
C11_Original ==
    \A self \in live :
        Answered(self)
        => /\ AnchoredOnce(ACTION_MARKER, FirstResponse(self))
              => /\ extract_action(FirstResponse(self))[1]
                      = RestOfLine(ACTION_MARKER, FirstResponse(self))
                 /\ RestOfLine(ACTION_MARKER, FirstResponse(self)) = <<>>
                      => pc[self] = "Done"
           /\ AnchoredOnce(INPUT_MARKER, FirstResponse(self))
              => extract_action(FirstResponse(self))[2]
                   = RestOfLine(INPUT_MARKER, FirstResponse(self))

\* the argument text is a structured key-value object
IsObject(text) == json_loads(text).ok /\ json_loads(text).value.kind = "dict"

\* C12 as stated: when search_attractions is declared with an argument text
\* that is no structured key-value object (a text in double quotes
\* included), the operation is called with keyword set to the quote-stripped
\* text: the observation appended is the serialized search result, not the
\* execution-error string, and the loop goes on.
C12_Original ==
    [][\A self \in live :
        LET parsed == extract_action(Reply(sent[self]))
        IN  ( /\ Returns(self)
              /\ parsed[1] = <<"search_attractions">>
              /\ ~IsObject(parsed[2]) )
            => /\ GoesOn(self)
               /\ history'[self]
                    = Observed(self,
                               DumpsRows(search_attractions(db, StripQuotes(parsed[2]),
                                                            <<>>, <<>>)))
    ]_vars

\* text with one layer of surrounding double quotes removed, text itself when
\* it is not wrapped in a pair of quotes
OneLayerRemoved(text) ==
    IF Len(text) >= 2 /\ text[1] = QUOTE /\ text[Len(text)] = QUOTE
    THEN Slice(text, 2, Len(text) - 1)
    ELSE text

\* C13 as stated: when one of the five single-argument actions is declared,
\* the operation is called with the argument text less exactly one layer of
\* surrounding double quotes (the text unchanged when it is not wrapped in a
\* pair of quotes): the observation appended is the one the operation gives
\* for that parameter.
C13_Original ==
    [][\A self \in live :
        LET parsed == extract_action(Reply(sent[self]))
        IN  ( /\ Returns(self)
              /\ InTools(parsed[1])
              /\ parsed[1][1] \in SingleArgActions )
            => /\ StripQuotes(parsed[2]) = OneLayerRemoved(parsed[2])
               /\ history'[self]
                    = Observed(self,
                               Caught(parsed[1][1],
                                      SingleArg(db, parsed[1][1],
                                                OneLayerRemoved(parsed[2]))).text)
    ]_vars

\* s is an initial segment of t
IsPrefix(s, t) == Len(s) <= Len(t) /\ SubSeq(t, 1, Len(s)) = s

\* C14: within an invocation the history only grows at its end; a model call
\* that returns appends the response as an assistant message, and, when an
\* action is declared, exactly one more message: a user message holding
\* "Observation: " followed by the text execute_action returned; so each
\* model call is sent 2 + 2k messages, k the calls issued before it in the
\* invocation, the last of them a user message.
C14_AppendOnly ==
    [][\A self \in live :
        LET parsed == extract_action(Reply(sent[self]))
            n == Len(history[self])
        IN  /\ ~Enters(self) => IsPrefix(history[self], history'[self])
            /\ Returns(self)
               => /\ Len(history'[self]) >= n + 1
                  /\ history'[self][n + 1] = Message("assistant", Reply(sent[self]))
                  /\ IF parsed[1] = <<>>
                     THEN Len(history'[self]) = n + 1
                     ELSE /\ Len(history'[self]) = n + 2
                          /\ history'[self][n + 2]
                               = Message("user",
                                         <<"Observation: ">>
                                         \o execute_action(db, parsed[1], parsed[2]).text)
            /\ IssuesCall(self)
               => /\ sent'[self] = history[self]
                  /\ Len(sent'[self]) = 2 + 2 * calls[self]
                  /\ sent'[self][Len(sent'[self])].role = "user"
    ]_vars

\* C14 witness: the third model call of an invocation was sent six messages,
\* the last one an observation
C14_Witness ==
    \E self \in live :
        /\ pc[self] = "await"
        /\ calls[self] = 3
        /\ Len(sent[self]) = 6
        /\ sent[self][6].content[1] = "Observation: "

\* C15: the first model call of every invocation is sent exactly two
\* messages, the fixed system message and a user message holding the query of
\* that invocation; and whatever call of the invocation is pending, the
\* messages sent start with those two and count two per call issued, so none
\* of an earlier invocation on the object is among them.
C15_Seeding ==
    \A self \in live :
        (pc[self] = "await")
        => /\ calls[self] = 1
              => sent[self] = << Message("system", SYSTEM_PROMPT),
                                 Message("user", query[self]) >>
           /\ SubSeq(sent[self], 1, 2) = << Message("system", SYSTEM_PROMPT),
                                            Message("user", query[self]) >>
           /\ Len(sent[self]) = 2 * calls[self]

\* C15 witness: the first call of a second invocation on an object whose
\* first invocation exchanged messages
C15_Witness ==
    \E self \in live :
        /\ invocations[self] = 2
        /\ pc[self] = "await"
        /\ calls[self] = 1
        /\ BagCardinality(usage_log[self]) >= 2

\* the pending model call of self ends in this step without a usage report
Fails(self) == pc[self] = "await" /\ pc'[self] # "await" /\ ~Returns(self)

\* C16: a model call that fails leaves plan_travel with the exception: the
\* step changes neither the accumulated cost, the token totals nor the
\* history, gives no result, and after it the object issues no model call
\* (none is tried again) until plan_travel is called anew.
C16_FailurePropagates ==
    [][\A self \in live :
        /\ Fails(self)
           => /\ pc'[self] = "raised"
              /\ total_cost'[self] = total_cost[self]
              /\ total_tokens'[self] = total_tokens[self]
              /\ history'[self] = history[self]
              /\ result'[self] = result[self]
              /\ calls'[self] = calls[self]
        /\ pc[self] = "raised"
           => /\ ~IssuesCall(self)
              /\ pc'[self] # "raised" => Enters(self)
    ]_vars

\* C16 witness: the second model call of an invocation failed, after the
\* first had been paid and answered
C16_Witness ==
    \E self \in live :
        /\ pc[self] = "raised"
        /\ calls[self] = 2
        /\ total_cost[self] > 0
        /\ Len(history[self]) = 4

\* C17 as stated: with the credential absent (no file, or a file without the
\* key) neither a ReActAgent nor a DataWriter comes out of its constructor,
\* and so none fails later, at its first model call.
C17_Original ==
    config # "key"
    => /\ live = {}
       /\ writer.pc = "absent"
       /\ writer.last # "ValueError: no key"

\* the step leaves the account and the conversation of object b alone
Untouched(b) ==
    /\ total_cost'[b] = total_cost[b]
    /\ total_tokens'[b] = total_tokens[b]
    /\ usage_log'[b] = usage_log[b]
    /\ history'[b] = history[b]
    /\ sent'[b] = sent[b]

\* C18: with the steps of several agent objects interleaved, a step that
\* changes the accumulated cost, the token totals or the history of an object
\* is a step of that object's own plan_travel (cost and tokens change only
\* when its own pending model call returns), and it leaves the account and
\* the history of every other object as they were.
C18_Isolation ==
    [][\A a \in live :
        ~Untouched(a)
        => /\ pc'[a] # pc[a] \/ Enters(a)
           /\ (total_cost'[a] # total_cost[a] \/ total_tokens'[a] # total_tokens[a])
              => pc[a] = "await" /\ Returns(a)
           /\ \A b \in live \ {a} : Untouched(b) /\ pc'[b] = pc[b]
    ]_vars

\* C18 witness: two objects on different models, each with a model call
\* pending and with costs of its own behind it
C18_Witness ==
    /\ live = {1, 2}
    /\ model[1] # model[2]
    /\ pc[1] = "await" /\ pc[2] = "await"
    /\ total_cost[1] > 0 /\ total_cost[2] > 0
    /\ total_cost[1] # total_cost[2]

\* C19: whatever action and argument text a response declares, a registry
\* key or not, failing or not, no step of plan_travel changes the stored
\* rows: when an invocation has ended they are those stored before it.
C19_ReadOnly ==
    /\ [][db' = db]_vars
    /\ [](\A self \in live : pc[self] \in Terminal => db = InitialData)

\* C19 witness: get_transportation_info failed on a stored record and
\* search_attractions ran, and the invocation ended
C19_Witness ==
    \E self \in live :
        /\ pc[self] \in Terminal
        /\ tool_log[self] # <<>>
        /\ tool_log[self][1] \in {"search_attractions", "get_transportation_info"}
        /\ db = InitialData

\* C20: for an object whose model is not in the price table, the cost added
\* for a usage report of p prompt and c completion tokens is the one at the
\* qwen-flash prices, p/1000 * 0.0003 + c/1000 * 0.0006 yuan (3 and 6 units
\* of 1e-7 yuan a token); computing it changes nothing else of the object:
\* the token totals grow by p and c, model and budget_limit stay.
C20_CostFallback ==
    [][\A self \in live :
        (Returns(self) /\ model[self] \notin {"qwen-flash", "qwen-plus", "qwen-max"})
        => \E u \in llm.usage :
              /\ usage_log'[self] = usage_log[self] (+) SetToBag({u})
              /\ total_cost'[self] = total_cost[self] + u[1] * 3 + u[2] * 6
              /\ total_tokens'[self].prompt_tokens
                    = total_tokens[self].prompt_tokens + u[1]
              /\ total_tokens'[self].completion_tokens
                    = total_tokens[self].completion_tokens + u[2]
              /\ model'[self] = model[self]
              /\ budget_limit'[self] = budget_limit[self]
    ]_vars

\* C20 witness: an object on a model the table does not hold has paid for a
\* report of 1000 + 500 tokens and for one of 250 + 0 tokens
C20_Witness ==
    \E self \in live :
        /\ model[self] = "qwen-turbo"
        /\ total_cost[self] = 6750
        /\ BagCardinality(usage_log[self]) = 2

\* no plan_travel call on self is in progress
AtRest(self) == pc[self] \in {"idle", "raised"} \cup Terminal

\* C21: the account lives on the object, not in the invocation.  While no
\* invocation is in progress, and across the plan_travel call that starts the
\* next one, total_cost and total_tokens keep the values the previous
\* invocation ended with, and total_cost never decreases; so once an
\* invocation has ended with total_cost at or above budget_limit, every later
\* plan_travel call on the object returns the budget-exceeded message and
\* issues no model call.
C21_AccountPersists ==
    [][\A self \in live :
        /\ total_cost'[self] >= total_cost[self]
        /\ AtRest(self)
           => /\ total_cost'[self] = total_cost[self]
              /\ total_tokens'[self] = total_tokens[self]
        /\ ( /\ Enters(self)
             /\ invocations[self] >= 1
             /\ total_cost[self] >= budget_limit[self] )
           => /\ pc'[self] = "BudgetExceeded"
              /\ calls'[self] = 0
              /\ sent'[self] = <<>>
              /\ IsBudgetMessage(result'[self], budget_limit[self], total_cost[self])
    ]_vars

\* C21 witness: a second invocation was refused on entry because of what the
\* first one spent
C21_Witness ==
    \E self \in live :
        /\ invocations[self] = 2
        /\ pc[self] = "BudgetExceeded"
        /\ calls[self] = 0
        /\ BagCardinality(usage_log[self]) >= 1
        /\ total_cost[self] >= budget_limit[self]
        /\ total_cost[self] > 0

\* the model call of self that returns in this step brings the accumulated
\* cost from below the ceiling to or above it
CrossesCeiling(self) ==
    /\ Returns(self)
    /\ total_cost[self] < budget_limit[self]
    /\ total_cost'[self] >= budget_limit[self]

\* the response to the pending model call of self declares an action
DeclaresAction(self) == ~NoAction(extract_action(Reply(sent[self]))[1])

\* C22: the budget-exceeded outcome comes only from a budget check, made on
\* entry to plan_travel or at the head of a loop iteration that would issue a
\* model call, never from the step in which a model call returns.  When the
\* call that brings the accumulated cost to or above the ceiling returns a
\* response with no action, the invocation ends in success; when that call is
\* the max_iterations-th of the invocation and its response declares an
\* action, the loop goes on to its head and the invocation ends there with
\* the iteration-exceeded message.
C22_OutcomePriority ==
    [][\A self \in live :
        /\ (pc'[self] = "BudgetExceeded" /\ (pc[self] # "BudgetExceeded" \/ Enters(self)))
           => /\ \/ Enters(self)
                 \/ pc[self] = "loop" /\ i[self] < max_iterations
              /\ ~Returns(self)
              /\ total_cost[self] >= budget_limit[self]
              /\ total_cost'[self] = total_cost[self]
        /\ (CrossesCeiling(self) /\ ~DeclaresAction(self))
           => /\ pc'[self] = "Done"
              /\ result'[self] # <<>>
              /\ ~IsBudgetMessage(result'[self], budget_limit[self], total_cost'[self])
        /\ (CrossesCeiling(self) /\ DeclaresAction(self) /\ calls[self] = max_iterations)
           => /\ pc'[self] = "loop"
              /\ i'[self] = max_iterations
        /\ ( /\ pc[self] = "loop"
             /\ i[self] = max_iterations
             /\ total_cost[self] >= budget_limit[self]
             /\ pc'[self] # "loop" )
           => /\ pc'[self] = "IterationExceeded"
              /\ IsIterationMessage(result'[self], total_cost[self])
    ]_vars

\* C22 witness: the tenth call of an invocation crossed the ceiling, declared
\* an action, and the invocation ended with the iteration-exceeded message
C22_Witness ==
    \E self \in live :
        /\ pc[self] = "IterationExceeded"
        /\ calls[self] = max_iterations
        /\ total_cost[self] >= budget_limit[self]
        /\ total_cost[self] - MaxCallCost(self) < budget_limit[self]
        /\ Len(tool_log[self]) = max_iterations

\* a state in which the call that crossed the ceiling was answered without an
\* action and the invocation ended in success
C22_DoneAtCeiling ==
    \E self \in live :
        /\ pc[self] = "Done"
        /\ calls[self] >= 1
        /\ total_cost[self] >= budget_limit[self]
        /\ total_cost[self] - MaxCallCost(self) < budget_limit[self]

\* C23: when get_transportation_info is dispatched with a name, the operation
\* returns the transportation mapping of the record get_attraction_by_name
\* finds for the name, the empty mapping when there is no record; the step
\* goes on and the observation appended is that mapping serialized, never the
\* execution-error string.
C23_Original ==
    [][\A self \in live :
        LET parsed == extract_action(Reply(sent[self]))
            name == StripQuotes(parsed[2])
            attraction == get_attraction_by_name(db, name)
            outcome == get_transportation_info(db, name)
        IN  ( /\ Returns(self)
              /\ parsed[1] = <<"get_transportation_info">> )
            => /\ ~outcome.raised
               /\ outcome.value = (IF attraction.found
                                   THEN attraction.row.transportation
                                   ELSE PyDict(<<>>))
               /\ GoesOn(self)
               /\ history'[self]
                    = Observed(self,
                               IF attraction.found
                               THEN DumpsPy(attraction.row.transportation)
                               ELSE DumpsDict(<<>>))
    ]_vars

\* row satisfies every filter that is not empty: the keyword occurs in its
\* name, description or address; the category is one of its categories; the
\* ward is its ward
Satisfies(row, keyword, category, ward) ==
    /\ keyword # <<>> => \/ Contains(row.name, keyword)
                         \/ Contains(row.description, keyword)
                         \/ Contains(row.address, keyword)
    /\ category # <<>> => category \in Range(SplitComma(row.categories))
    /\ ward # <<>> => row.ward = ward

\* the stored records that satisfy the filters, as the reader reports records
Satisfying(file, keyword, category, ward) ==
    LET Sat(row) == Satisfies(row, keyword, category, ward)
    IN  df_to_dict_list(SelectSeq(file, Sat))

\* C24: search_attractions returns exactly the stored records that satisfy
\* every non-empty filter (keyword contained in name, description or address;
\* category one of the record's categories; ward equal to the record's
\* ward); get_attractions_by_category and get_attractions_by_ward return what
\* search_attractions returns with only that filter set.
C24_Original ==
    /\ returned.op = "search_attractions"
       => returned.rows
            = Satisfying(db, returned.keyword, returned.category, returned.ward)
    /\ returned.op = "get_attractions_by_category"
       => /\ returned.rows = search_attractions(db, <<>>, returned.category, <<>>)
          /\ returned.rows = Satisfying(db, <<>>, returned.category, <<>>)
    /\ returned.op = "get_attractions_by_ward"
       => /\ returned.rows = search_attractions(db, <<>>, <<>>, returned.ward)
          /\ returned.rows = Satisfying(db, <<>>, <<>>, returned.ward)

\* the same with the category filter read as the code applies it: the
\* category text occurs somewhere in the record's comma-joined categories
C24_CategoryAsSubstring ==
    LET Sat(row) ==
            /\ Satisfies(row, returned.keyword, <<>>, returned.ward)
            /\ returned.category # <<>> => Contains(row.categories, returned.category)
    IN  returned.op \in {"search_attractions", "get_attractions_by_category",
                         "get_attractions_by_ward"}
        => returned.rows = df_to_dict_list(SelectSeq(db, Sat))

\* no two rows of file share a name
NamesUnique(file) ==
    \A j, k \in 1..Len(file) : file[j].name = file[k].name => j = k

\* an add_attraction_data call returns in this step
AddReturns ==
    /\ returned'.op = "add_attraction_data"
    /\ returned' # returned \/ db' # db

\* the name of the attraction the add of this step is about is stored already
NameStored ==
    /\ returned'.data.kind = "dict"
    /\ "name" \in returned'.data.keys
    /\ \E k \in 1..Len(db) : db[k].name = returned'.data.name

\* C25: add_attraction_data calls by one writer keep the names of the stored
\* records distinct, and an add whose name is stored already returns False
\* and leaves the store as it was.
C25_Original ==
    [][/\ NamesUnique(db) => NamesUnique(db')
       /\ (AddReturns /\ NameStored) => (~returned'.flag /\ db' = db)
    ]_vars

\* C26: after an add_attraction_data call, whatever it returns and whether or
\* not loading the store failed, every record stored before the call is still
\* stored unchanged; when it returns True the store holds one record more,
\* the new one.
C26_Original ==
    [][AddReturns
       => /\ Range(db) \subseteq Range(db')
          /\ returned'.flag
             => /\ Len(db') = Len(db) + 1
                /\ Range(db') = Range(db) \cup {new_record(returned'.data)}
    ]_vars

=============================================================================
